---- MODULE Spec2Model ----
(***************************************************************************)
(* Sketch Master AI: the drawing surface (DrawingCanvas) with its stroke   *)
(* metrics and its undo/redo history, the metrics payload App builds from  *)
(* it, App's games (session, countdown, frame interval, delayed cleanup)   *)
(* and the rooms of ONLINE mode.                                           *)
(*                                                                         *)
(* Times are milliseconds (Date.now()).  Non-integer numbers are exact     *)
(* rationals [n, d] in lowest terms with d > 0.  The speeds and times the  *)
(* bounded runs produce are dyadic or whole and exactly representable as   *)
(* doubles; the payload's quotients are compared with thresholds they      *)
(* either meet exactly (correctly rounded division) or miss by far more    *)
(* than a rounding error.                                                  *)
(***************************************************************************)
EXTENDS Integers, Sequences, FiniteSets, Bags, TLC

\* ------------------------------------------------------------ numbers

\* The operators below bind their operands to values (x \in {a}) before they
\* use them: TLC evaluates an operator's argument anew at each use when it
\* evaluates ENABLED for a fairness condition.

Abs(i) == IF i < 0 THEN 0 - i ELSE i

RECURSIVE GCD(_, _)
GCD(a, b) ==
    IF b = 0 THEN a ELSE CHOOSE g \in {GCD(y, x % y) : x \in {a}, y \in {b}} : TRUE

\* The rational n/d (d > 0) in lowest terms.
Q(n, d) ==
    CHOOSE q \in {[n |-> x \div g, d |-> y \div g] :
                     x \in {n}, y \in {d}, g \in {GCD(Abs(n), d)}} : TRUE

RInt(i) == [n |-> i, d |-> 1]
LCM(a, b) == (a \div GCD(a, b)) * b
RAdd(a, b) ==
    LET Sum(x, y, l) == Q(x.n * (l \div x.d) + y.n * (l \div y.d), l)
    IN  CHOOSE q \in {Sum(x, y, LCM(x.d, y.d)) : x \in {a}, y \in {b}} : TRUE
RSub(a, b) == RAdd(a, [n |-> 0 - b.n, d |-> b.d])
RLt(a, b) == a.n * b.d < b.n * a.d
RLeq(a, b) == a.n * b.d <= b.n * a.d

\* Math.sqrt on the perfect squares the pointer inputs produce.
Sqrt(k) == CHOOSE r \in 0..k : r * r = k

\* Math.min / Math.max on rationals.
RMin(a, b) ==
    CHOOSE m \in {IF RLt(y, x) THEN y ELSE x : x \in {a}, y \in {b}} : TRUE
RMax(a, b) ==
    CHOOSE m \in {IF RLt(x, y) THEN y ELSE x : x \in {a}, y \in {b}} : TRUE

\* ------------------------------------------------------------ constants

MAX_HISTORY == 50

\* The canvas filled with the background colour.
Blank == 0

NoContent == 0 - 1
NoPos == <<>>

\* ------------------------------------------------------------ bounds

\* Pictures a surface can show: 0 (Blank) .. MaxContent.
MaxContent == 2
\* Strokes, clears, undos and speed updates of one run of Spec.
MaxOps == 5
\* SpecDeep: strokes drawn before anything else happens, and the operations after.
WarmStrokes == 49
DeepOps == 2
\* SpecSpeed: strokes and speed updates of one run.
MaxSpeedStrokes == 2
MaxUpdates == 3
\* SpecPayload: a stroke count far above every threshold.
LargeStrokes == 1000
\* SpecStacks, SpecRedraw, SpecLife: the strokes, samples, clears and undos of
\* one run.
MaxStackOps == 5
MaxRedrawOps == 4
MaxLifeOps == 3
\* SpecAll: the strokes, samples, clears and undos of one run, and its seconds.
MaxAllOps == 3
MaxAllClock == 1
\* SpecGame: the games started.
MaxGames == 2
\* SpecCountdown: the games started.
MaxCountdownGames == 1
\* SpecRoom: the rooms a client creates or joins.
MaxConnects == 2
\* SpecClock: the seconds the clock runs, the strokes, and the samples drawn.
MaxClock == 4
MaxClockStrokes == 2
MaxClockSamples == 1

Contents == 0..MaxContent

\* Pointer positions, relative to the canvas.
OnePoint == {<<0, 0>>}
SpeedPoints == {<<0, 0>>, <<10, 0>>, <<30, 0>>, <<60, 0>>}

\* ------------------------------------------------------------ state

VARIABLES
    canvas,         \* canvasRef.current is the mounted canvas element
    isActive,       \* the isActive prop
    surface,        \* the picture the canvas shows
    loading,        \* images created by restoreState, onload not yet fired
    undoStack,      \* data URLs, oldest first
    redoStack,      \* data URLs, oldest first
    isDrawing,      \* the isDrawing state of the latest render
    metrics,        \* metrics.current
    lastPos,        \* lastPos.current
    drawStartTime,  \* drawStartTime.current
    now,            \* Date.now()
    app,            \* the state of App that the metrics payload reads and writes
    ev,             \* history: the last event handled
    mark            \* history: what earlier events captured

vars == <<canvas, isActive, surface, loading, undoStack, redoStack, isDrawing,
          metrics, lastPos, drawStartTime, now, app, ev, mark>>

canvasVars == <<canvas, isActive, surface, loading, undoStack, redoStack,
                isDrawing, metrics, lastPos, drawStartTime>>

\* ------------------------------------------------------------ images

\* canvas.toDataURL(): a lossless PNG of the picture.
ToDataURL(c) == [mime |-> "image/png", px |-> c]

\* The picture an Image holds once its src has loaded.
DecodeImage(url) == url.px

NoImg == [url |-> [mime |-> "none", px |-> NoContent], by |-> "none", expect |-> NoContent]
NoPre == [valid |-> FALSE, surface |-> NoContent, undo |-> <<>>, redo |-> <<>>]

\* The last event: its handler, whether it passed its early returns and, for
\* undo and redo, the event before it (after); for redo the state before the
\* undo it directly follows (rt); for an onload the image and the picture it
\* painted over (img, was).
Event(op, applied) ==
    [op |-> op, applied |-> applied, after |-> "", img |-> NoImg,
     was |-> NoContent, rt |-> NoPre]

\* ------------------------------------------------------------ history stack

EvictNone(stack) == stack

EvictNewest(stack) ==
    IF Len(stack) > MAX_HISTORY THEN SubSeq(stack, 1, Len(stack) - 1) ELSE stack

\* if (undoStack.current.length > MAX_HISTORY) undoStack.current.shift()
Evict(stack) ==
    IF Len(stack) > MAX_HISTORY THEN Tail(stack) ELSE stack

SaveStateKeepsRedo(undo, redo, pic) ==
    IF ~canvas
    THEN [undo |-> undo, redo |-> redo]
    ELSE [undo |-> Evict(Append(undo, ToDataURL(pic))), redo |-> redo]

\* saveState: the stacks it leaves, given the stacks and the picture it finds.
SaveState(undo, redo, pic) ==
    IF ~canvas
    THEN [undo |-> undo, redo |-> redo]
    ELSE [undo |-> Evict(Append(undo, ToDataURL(pic))), redo |-> <<>>]

PopLeavesTop(stack) == [top |-> stack[Len(stack)], rest |-> stack]

PopOldest(stack) == [top |-> Head(stack), rest |-> Tail(stack)]

\* Array.prototype.pop: the last element, and the array without it.
Pop(stack) ==
    [top |-> stack[Len(stack)], rest |-> SubSeq(stack, 1, Len(stack) - 1)]

\* ------------------------------------------------------------ strokes

\* Math.sqrt(Math.pow(x - lastPos.x, 2) + Math.pow(y - lastPos.y, 2))
Dist(a, b) == Sqrt((b[1] - a[1]) * (b[1] - a[1]) + (b[2] - a[2]) * (b[2] - a[2]))

SmoothNoHalve(avg, dist) == RAdd(avg, RInt(dist))

\* metrics.current.averageSpeed = (metrics.current.averageSpeed + dist) / 2
Smooth(avg, dist) ==
    LET sum == RAdd(avg, RInt(dist))
    IN  Q(sum.n, sum.d * 2)

\* draw(e) passes its early return, called from a render whose isDrawing is `drawing`.
DrawRuns(drawing) == drawing /\ isActive /\ canvas

\* What draw(e) at point p leaves, painting picture c when a line is stroked.
SpeedAfterDraw(runs, p) ==
    IF runs /\ lastPos # NoPos
    THEN Smooth(metrics.averageSpeed, Dist(lastPos, p))
    ELSE metrics.averageSpeed

LastPosAfterDraw(runs, p) == IF runs THEN p ELSE lastPos

\* ctx.lineTo(x, y); ctx.stroke() paints only when the path already holds a point.
SurfaceAfterDraw(runs, c) == IF runs /\ lastPos # NoPos THEN c ELSE surface

DistsAfterDraw(runs, p) ==
    IF runs /\ lastPos # NoPos THEN Append(mark.dists, Dist(lastPos, p)) ELSE mark.dists

\* What a saveState that captured the surface leaves in the history variables.
MarkAfterSave ==
    IF ~canvas
    THEN [mark EXCEPT !.pre = NoPre]
    ELSE [mark EXCEPT !.saved = surface,
                      !.cleared = Len(redoStack),
                      !.log = IF mark.clean THEN Append(@, surface) ELSE @,
                      !.pre = NoPre]

InitMetrics ==
    [strokeCount |-> 0, lastStrokeTime |-> 0, hesitationSeconds |-> RInt(0),
     totalDrawingTime |-> 0, clearCount |-> 0, undoCount |-> 0,
     averageSpeed |-> RInt(0)]

NoPayload == [phase |-> "null"]

\* Strings returned by getSnapshot: '' is the empty sequence.
EmptyString == <<>>
NoSnap == [called |-> FALSE, data |-> EmptyString]

\* No object returned by getMetrics yet.
NoObject == [ref |-> "none", val |-> InitMetrics]

\* An interval timer: whether it is set, when it was set and when it last fired.
NoTimer == [on |-> FALSE, start |-> 0, last |-> 0]

\* The App instances (tabs of one browser, each with its SESSION_ID) that can
\* meet on a BroadcastChannel, the room codes they type and PROMPTS' indices.
Clients == {1, 2}
RoomCodes == {"A", "B"}
RoomPrompts == {0, 1}
NoOpponent == 0
NoChannel == ""

\* The handleMessage a channel's onmessage calls: the one of the render in which
\* connectToRoom ran, with that render's isHost, opponent and currentPrompt.
NoHandler == [isHost |-> FALSE, opponent |-> NoOpponent, currentPrompt |-> 0]

\* One App instance's online state: gameState, isHost, opponent, currentPrompt,
\* roomCode; channelRef's room; the handler its channel calls; the messages
\* posted to its channel and not yet handled; the rooms it has connected to.
InitClient ==
    [gameState |-> "LOBBY", isHost |-> FALSE, opponent |-> NoOpponent,
     currentPrompt |-> 0, roomCode |-> NoChannel, channel |-> NoChannel,
     handler |-> NoHandler, inbox |-> <<>>, connects |-> 0]

\* App: the gameState, isConnecting, timeLeft and commentCount states, the
\* lastCommentTime ref, the currentMetricsPayload state, (closure) the
\* timeLeft and commentCount of the render whose startGame created the frame
\* interval's callback, (endClosure) the timeLeft of the render whose
\* countdown effect holds endGame, (canvasMetrics) the object the last
\* getMetrics call handed to its caller, (snap) the string the last
\* getSnapshot call returned, (session) sessionRef.current, (closing) sessions
\* closed whose onclose has not run, (frame) frameIntervalRef, (countdown) the
\* countdown effect's interval, (cleanups) the cleanupSession timeouts, each
\* with its due time and the game whose endGame set it, (finalMetrics) the
\* payload the last endGame built, (games) the games started, (owner) the game
\* whose onopen set the session and the frame interval now held, (clients) the
\* ONLINE state of the App instances that can share a room.
InitApp ==
    [gameState |-> "LOBBY", isConnecting |-> FALSE,
     timeLeft |-> 60, commentCount |-> 0, lastCommentTime |-> 0,
     closure |-> [timeLeft |-> 60, commentCount |-> 0],
     endClosure |-> [timeLeft |-> 60, commentCount |-> 0],
     currentMetricsPayload |-> NoPayload,
     canvasMetrics |-> NoObject,
     snap |-> NoSnap,
     session |-> "null", closing |-> 0,
     frame |-> NoTimer, countdown |-> NoTimer,
     cleanups |-> {},
     finalMetrics |-> NoPayload,
     games |-> 0, owner |-> 0,
     clients |-> [c \in Clients |-> InitClient]]

\* App while a game is being played: the canvas is rendered, the session is
\* open and both intervals run.
PlayingApp ==
    [InitApp EXCEPT !.gameState = "PLAYING", !.session = "open",
                    !.frame.on = TRUE, !.countdown.on = TRUE, !.games = 1,
                    !.owner = 1]

InitMark ==
    [saved |-> NoContent, cleared |-> 0, clean |-> TRUE, log |-> <<>>,
     pre |-> NoPre, dists |-> <<>>]

\* The component mounted (the canvas filled by resize()), the clock read once.
\* App renders it while a game is played.
Init ==
    /\ canvas = TRUE
    /\ isActive = TRUE
    /\ surface = Blank
    /\ loading = EmptyBag
    /\ undoStack = <<>>
    /\ redoStack = <<>>
    /\ isDrawing = FALSE
    /\ metrics = InitMetrics
    /\ lastPos = NoPos
    /\ drawStartTime = 0
    /\ now = 0
    /\ app = PlayingApp
    /\ ev = Event("mount", TRUE)
    /\ mark = InitMark

\* ------------------------------------------------------------ handlers

\* onMouseDown / onTouchStart at p; c is the picture a stroked line would leave.
StartDrawing(p, c) ==
    IF ~isActive
    THEN /\ ev' = Event("startDrawing", FALSE)
         /\ mark' = [mark EXCEPT !.pre = NoPre]
         /\ UNCHANGED <<canvasVars, now, app>>
    ELSE LET st == SaveState(undoStack, redoStack, surface)
             \* draw(e) still sees the isDrawing of the render that made this handler
             runs == DrawRuns(isDrawing)
         IN  /\ undoStack' = st.undo
             /\ redoStack' = st.redo
             /\ isDrawing' = TRUE
             /\ metrics' = [metrics EXCEPT !.strokeCount = @ + 1,
                                           !.averageSpeed = SpeedAfterDraw(runs, p)]
             /\ drawStartTime' = now
             /\ lastPos' = LastPosAfterDraw(runs, p)
             /\ surface' = SurfaceAfterDraw(runs, c)
             /\ ev' = Event("startDrawing", TRUE)
             /\ mark' = [MarkAfterSave EXCEPT !.dists = DistsAfterDraw(runs, p)]
             /\ UNCHANGED <<canvas, isActive, loading, now, app>>

\* onMouseMove / onTouchMove at p.  A move that returns early is no event.
Draw(p, c) ==
    LET runs == DrawRuns(isDrawing)
    IN  IF ~runs
        THEN UNCHANGED vars
        ELSE /\ metrics' = [metrics EXCEPT !.averageSpeed = SpeedAfterDraw(runs, p)]
             /\ lastPos' = LastPosAfterDraw(runs, p)
             /\ surface' = SurfaceAfterDraw(runs, c)
             /\ ev' = Event("draw", TRUE)
             /\ mark' = [mark EXCEPT !.pre = NoPre, !.dists = DistsAfterDraw(runs, p)]
             /\ UNCHANGED <<canvas, isActive, loading, undoStack, redoStack, isDrawing,
                            drawStartTime, now, app>>

ClearThenSave ==
    LET st == SaveState(undoStack, redoStack, IF canvas THEN Blank ELSE surface)
    IN  /\ undoStack' = st.undo
        /\ redoStack' = st.redo
        /\ metrics' = [metrics EXCEPT !.clearCount = @ + 1]
        /\ surface' = IF canvas THEN Blank ELSE surface
        /\ ev' = Event("clear", TRUE)
        /\ mark' = MarkAfterSave
        /\ UNCHANGED <<canvas, isActive, loading, isDrawing, lastPos,
                       drawStartTime, now, app>>

ClearForgetsStrokes ==
    LET st == SaveState(undoStack, redoStack, surface)
    IN  /\ undoStack' = st.undo
        /\ redoStack' = st.redo
        /\ metrics' = [metrics EXCEPT !.clearCount = @ + 1, !.strokeCount = 0]
        /\ surface' = IF canvas THEN Blank ELSE surface
        /\ ev' = Event("clear", TRUE)
        /\ mark' = MarkAfterSave
        /\ UNCHANGED <<canvas, isActive, loading, isDrawing, lastPos,
                       drawStartTime, now, app>>

StopDrawingUnguarded ==
    /\ metrics' = [metrics EXCEPT !.lastStrokeTime = now,
                                  !.totalDrawingTime = @ + (now - drawStartTime)]
    /\ isDrawing' = FALSE
    /\ lastPos' = NoPos
    /\ ev' = Event("stopDrawing", TRUE)
    /\ mark' = [mark EXCEPT !.pre = NoPre]
    /\ UNCHANGED <<canvas, isActive, surface, loading, undoStack, redoStack,
                   drawStartTime, now, app>>

\* onMouseUp / onTouchEnd.  With no stroke in progress lastPos is already null
\* and nothing changes: no event.
StopDrawing ==
    IF ~isDrawing
    THEN UNCHANGED vars
    ELSE /\ metrics' = [metrics EXCEPT !.lastStrokeTime = now,
                                       !.totalDrawingTime = @ + (now - drawStartTime)]
         /\ isDrawing' = FALSE
         /\ lastPos' = NoPos
         /\ ev' = Event("stopDrawing", TRUE)
         /\ mark' = [mark EXCEPT !.pre = NoPre]
         /\ UNCHANGED <<canvas, isActive, surface, loading, undoStack, redoStack,
                        drawStartTime, now, app>>

\* CanvasHandle.clear
Clear ==
    LET st == SaveState(undoStack, redoStack, surface)
    IN  /\ undoStack' = st.undo
        /\ redoStack' = st.redo
        /\ metrics' = [metrics EXCEPT !.clearCount = @ + 1]
        /\ surface' = IF canvas THEN Blank ELSE surface
        /\ ev' = Event("clear", TRUE)
        /\ mark' = MarkAfterSave
        /\ UNCHANGED <<canvas, isActive, loading, isDrawing, lastPos,
                       drawStartTime, now, app>>

\* The Image restoreState creates for dataUrl; `by` and `expect` are history.
UndoImage(url) == [url |-> url, by |-> "undo", expect |-> mark.saved]

RedoImage(url) ==
    [url |-> url, by |-> "redo",
     expect |-> IF mark.pre.valid THEN mark.pre.surface ELSE NoContent]

UndoCountsFirst ==
    IF Len(undoStack) = 0 \/ ~canvas
    THEN /\ metrics' = [metrics EXCEPT !.undoCount = @ + 1]
         /\ ev' = [Event("undo", FALSE) EXCEPT !.after = ev.op]
         /\ mark' = [mark EXCEPT !.pre = NoPre]
         /\ UNCHANGED <<canvas, isActive, surface, loading, undoStack, redoStack,
                        isDrawing, lastPos, drawStartTime, now, app>>
    ELSE LET popped == Pop(undoStack)
         IN  /\ metrics' = [metrics EXCEPT !.undoCount = @ + 1]
             /\ redoStack' = Append(redoStack, ToDataURL(surface))
             /\ undoStack' = popped.rest
             /\ loading' = loading (+) SetToBag({UndoImage(popped.top)})
             /\ ev' = [Event("undo", TRUE) EXCEPT !.after = ev.op]
             /\ mark' = [mark EXCEPT !.saved = NoContent, !.clean = FALSE, !.log = <<>>,
                                     !.pre = [valid |-> TRUE, surface |-> surface,
                                              undo |-> undoStack, redo |-> redoStack]]
             /\ UNCHANGED <<canvas, isActive, surface, isDrawing, lastPos,
                            drawStartTime, now, app>>

UndoPushesPrevious ==
    IF Len(undoStack) = 0 \/ ~canvas
    THEN /\ ev' = [Event("undo", FALSE) EXCEPT !.after = ev.op]
         /\ mark' = [mark EXCEPT !.pre = NoPre]
         /\ UNCHANGED <<canvasVars, now, app>>
    ELSE LET popped == Pop(undoStack)
         IN  /\ metrics' = [metrics EXCEPT !.undoCount = @ + 1]
             /\ redoStack' = Append(redoStack, popped.top)
             /\ undoStack' = popped.rest
             /\ loading' = loading (+) SetToBag({UndoImage(popped.top)})
             /\ ev' = [Event("undo", TRUE) EXCEPT !.after = ev.op]
             /\ mark' = [mark EXCEPT !.saved = NoContent, !.clean = FALSE, !.log = <<>>,
                                     !.pre = [valid |-> TRUE, surface |-> surface,
                                              undo |-> undoStack, redo |-> redoStack]]
             /\ UNCHANGED <<canvas, isActive, surface, isDrawing, lastPos,
                            drawStartTime, now, app>>

\* CanvasHandle.undo
Undo ==
    IF Len(undoStack) = 0 \/ ~canvas
    THEN /\ ev' = [Event("undo", FALSE) EXCEPT !.after = ev.op]
         /\ mark' = [mark EXCEPT !.pre = NoPre]
         /\ UNCHANGED <<canvasVars, now, app>>
    ELSE LET popped == Pop(undoStack)
         IN  /\ metrics' = [metrics EXCEPT !.undoCount = @ + 1]
             /\ redoStack' = Append(redoStack, ToDataURL(surface))
             /\ undoStack' = popped.rest
             \* restoreState(previousState): the paint waits for img.onload
             /\ loading' = loading (+) SetToBag({UndoImage(popped.top)})
             /\ ev' = [Event("undo", TRUE) EXCEPT !.after = ev.op]
             /\ mark' = [mark EXCEPT !.saved = NoContent, !.clean = FALSE, !.log = <<>>,
                                     !.pre = [valid |-> TRUE, surface |-> surface,
                                              undo |-> undoStack, redo |-> redoStack]]
             /\ UNCHANGED <<canvas, isActive, surface, isDrawing, lastPos,
                            drawStartTime, now, app>>

RedoCountsUndo ==
    IF Len(redoStack) = 0 \/ ~canvas
    THEN /\ ev' = [Event("redo", FALSE) EXCEPT !.after = ev.op]
         /\ mark' = [mark EXCEPT !.pre = NoPre]
         /\ UNCHANGED <<canvasVars, now, app>>
    ELSE LET popped == Pop(redoStack)
         IN  /\ metrics' = [metrics EXCEPT !.undoCount = @ + 1]
             /\ undoStack' = Append(undoStack, ToDataURL(surface))
             /\ redoStack' = popped.rest
             /\ loading' = loading (+) SetToBag({RedoImage(popped.top)})
             /\ ev' = [Event("redo", TRUE) EXCEPT !.after = ev.op, !.rt = mark.pre]
             /\ mark' = [mark EXCEPT !.saved = NoContent, !.clean = FALSE, !.log = <<>>,
                                     !.pre = NoPre]
             /\ UNCHANGED <<canvas, isActive, surface, isDrawing, lastPos,
                            drawStartTime, now, app>>

RedoPushesNext ==
    IF Len(redoStack) = 0 \/ ~canvas
    THEN /\ ev' = [Event("redo", FALSE) EXCEPT !.after = ev.op]
         /\ mark' = [mark EXCEPT !.pre = NoPre]
         /\ UNCHANGED <<canvasVars, now, app>>
    ELSE LET popped == Pop(redoStack)
         IN  /\ undoStack' = Append(undoStack, popped.top)
             /\ redoStack' = popped.rest
             /\ loading' = loading (+) SetToBag({RedoImage(popped.top)})
             /\ ev' = [Event("redo", TRUE) EXCEPT !.after = ev.op, !.rt = mark.pre]
             /\ mark' = [mark EXCEPT !.saved = NoContent, !.clean = FALSE, !.log = <<>>,
                                     !.pre = NoPre]
             /\ UNCHANGED <<canvas, isActive, surface, metrics, isDrawing, lastPos,
                            drawStartTime, now, app>>

\* CanvasHandle.redo
Redo ==
    IF Len(redoStack) = 0 \/ ~canvas
    THEN /\ ev' = [Event("redo", FALSE) EXCEPT !.after = ev.op]
         /\ mark' = [mark EXCEPT !.pre = NoPre]
         /\ UNCHANGED <<canvasVars, now, app>>
    ELSE LET popped == Pop(redoStack)
         IN  /\ undoStack' = Append(undoStack, ToDataURL(surface))
             /\ redoStack' = popped.rest
             \* restoreState(nextState): the paint waits for img.onload
             /\ loading' = loading (+) SetToBag({RedoImage(popped.top)})
             /\ ev' = [Event("redo", TRUE) EXCEPT !.after = ev.op, !.rt = mark.pre]
             /\ mark' = [mark EXCEPT !.saved = NoContent, !.clean = FALSE, !.log = <<>>,
                                     !.pre = NoPre]
             /\ UNCHANGED <<canvas, isActive, surface, metrics, isDrawing, lastPos,
                            drawStartTime, now, app>>

\* img.onload of restoreState: fill the background, draw the image over it.
RestoreLoad(img) ==
    /\ BagIn(img, loading)
    /\ loading' = loading (-) SetToBag({img})
    /\ surface' = DecodeImage(img.url)
    /\ ev' = [Event("onload", TRUE) EXCEPT !.img = img, !.was = surface]
    /\ UNCHANGED <<canvas, isActive, undoStack, redoStack, isDrawing, metrics,
                   lastPos, drawStartTime, now, app, mark>>

MetricsReadAlways ==
    [metrics EXCEPT !.hesitationSeconds = Q(now - metrics.lastStrokeTime, 1000)]

\* getMetrics: metrics.current after the hesitation recompute.
MetricsRead ==
    IF ~isDrawing
    THEN [metrics EXCEPT !.hesitationSeconds = Q(now - metrics.lastStrokeTime, 1000)]
    ELSE metrics

ReturnsCurrent(m) == [ref |-> "metrics.current", val |-> m]

\* { ...metrics.current }: a new object with the same fields.
SpreadCopy(m) == [ref |-> "copy", val |-> m]

\* CanvasHandle.getMetrics, called by any holder of the handle.
GetMetrics ==
    /\ metrics' = MetricsRead
    /\ app' = [app EXCEPT !.canvasMetrics = SpreadCopy(MetricsRead)]
    /\ ev' = Event("getMetrics", TRUE)
    /\ UNCHANGED <<canvas, isActive, surface, loading, undoStack, redoStack,
                   isDrawing, lastPos, drawStartTime, now, mark>>

\* A value strokeCount never takes.
Scribbled == 0 - 1

\* The caller assigns to a field of the object getMetrics returned; the write
\* reaches metrics.current only if that object is metrics.current itself.
CallerWrites ==
    /\ app.canvasMetrics.ref # "none"
    /\ app.canvasMetrics.val.strokeCount # Scribbled
    /\ app' = [app EXCEPT !.canvasMetrics.val.strokeCount = Scribbled]
    /\ metrics' = IF app.canvasMetrics.ref = "metrics.current"
                  THEN [metrics EXCEPT !.strokeCount = Scribbled]
                  ELSE metrics
    /\ ev' = Event("callerWrites", TRUE)
    /\ UNCHANGED <<canvas, isActive, surface, loading, undoStack, redoStack,
                   isDrawing, lastPos, drawStartTime, now, mark>>

\* canvas.toDataURL('image/jpeg', 0.8).split(',')[1]: the base64 body, never empty.
ToJpegBase64(c) == <<"jpeg", c>>

\* CanvasHandle.getSnapshot, called by any holder of the handle.
GetSnapshot ==
    /\ app' = [app EXCEPT !.snap =
                  [called |-> TRUE,
                   data |-> IF ~canvas THEN EmptyString ELSE ToJpegBase64(surface)]]
    /\ ev' = Event("getSnapshot", canvas)
    /\ UNCHANGED <<canvasVars, now, mark>>

\* The parent renders the component with isActive = b.
SetIsActive(b) ==
    /\ canvas
    /\ isActive # b
    /\ isActive' = b
    /\ ev' = Event("render", TRUE)
    /\ mark' = [mark EXCEPT !.pre = NoPre]
    /\ UNCHANGED <<canvas, surface, loading, undoStack, redoStack, isDrawing,
                   metrics, lastPos, drawStartTime, now, app>>

\* The component unmounts: React sets canvasRef.current to null.
Unmount ==
    /\ canvas
    /\ canvas' = FALSE
    /\ ev' = Event("unmount", TRUE)
    /\ UNCHANGED <<isActive, surface, loading, undoStack, redoStack, isDrawing,
                   metrics, lastPos, drawStartTime, now, app, mark>>

\* The clock advances by d milliseconds (d > 0).
Tick(d) ==
    /\ now' = now + d
    /\ ev' = Event("tick", TRUE)
    /\ UNCHANGED <<canvasVars, app, mark>>

\* ------------------------------------------------------------ metrics payload

ClampLow(r) == RMax(RInt(0), r)

\* Math.min(1, Math.max(0, r))
Clamp01(r) == RMin(RInt(1), RMax(RInt(0), r))

\* parseFloat(r.toFixed(2)) for r >= 0: the nearest hundredth, a tie going up
\* (toFixed picks the larger n when two are equally near).
Round2(r) ==
    CHOOSE q \in {Q((x.n * 200 + x.d) \div (2 * x.d), 100) : x \in {r}} : TRUE

PanicDetectedInclusive(pct, avg) == RLeq(pct, Q(15, 100)) /\ RLt(RInt(120), avg)

\* time_remaining_pct < 0.15 && canvasMetrics.averageSpeed > 120
PanicDetected(pct, avg) == RLt(pct, Q(15, 100)) /\ RLt(RInt(120), avg)

TrendHesitationFirst(m) ==
    IF RLt(RInt(3), m.hesitationSeconds) THEN "falling"
    ELSE IF RLt(RInt(60), m.averageSpeed) THEN "rising"
    ELSE "stable"

\* averageSpeed > 60 ? "rising" : hesitationSeconds > 3 ? "falling" : "stable"
Trend(m) ==
    IF RLt(RInt(60), m.averageSpeed) THEN "rising"
    ELSE IF RLt(RInt(3), m.hesitationSeconds) THEN "falling"
    ELSE "stable"

ConfidenceScore(m) ==
    Clamp01(RSub(RAdd(Q(m.strokeCount, 40), Q(m.averageSpeed.n, m.averageSpeed.d * 200)),
                 Q(m.hesitationSeconds.n, m.hesitationSeconds.d * 10)))

EfficiencyScore(m) == Clamp01(Q(m.strokeCount * 5000, m.totalDrawingTime + 1000))

ClarityScore(m) == Clamp01(Q(m.strokeCount, 25))

\* getMetricsPayload(phase), given the copy m that getMetrics returned and the
\* timeLeft, commentCount and lastCommentTime the calling closure reads.
MetricsPayload(m, phase, timeLeft, commentCount, lastCommentTime) ==
    LET time_remaining_pct == Q(timeLeft, 60)
    IN  [phase |-> phase,
         time |-> [remaining_pct |-> time_remaining_pct],
         confidence |-> [score |-> Round2(ConfidenceScore(m)),
                         trend |-> Trend(m),
                         hesitation_seconds |-> m.hesitationSeconds,
                         redraw_rate |-> Round2(Q(m.undoCount, m.strokeCount + 1))],
         efficiency |-> [score |-> Round2(EfficiencyScore(m)),
                         panic_detected |-> PanicDetected(time_remaining_pct, m.averageSpeed)],
         clarity |-> [score |-> Round2(ClarityScore(m)),
                      recognizable_early |-> m.strokeCount > 15],
         commentary |-> [cooldown_active |-> (now - lastCommentTime) < 5000,
                         comments_used |-> commentCount]]

\* The frame interval's callback: getMetricsPayload() and setCurrentMetricsPayload.
\* The callback was created inside startGame, so the getMetricsPayload it calls
\* reads the timeLeft and commentCount of that render; lastCommentTime is a ref.
FramePoll ==
    /\ metrics' = IF canvas THEN MetricsRead ELSE metrics
    /\ app' = [app EXCEPT !.currentMetricsPayload =
                  IF canvas
                  THEN MetricsPayload(MetricsRead, "live", app.closure.timeLeft,
                                      app.closure.commentCount, app.lastCommentTime)
                  ELSE NoPayload,
                          !.frame.last = now]
    /\ ev' = Event("framePoll", canvas)
    /\ UNCHANGED <<canvas, isActive, surface, loading, undoStack, redoStack,
                   isDrawing, lastPos, drawStartTime, now, mark>>

\* ------------------------------------------------------------ game

\* cleanupSession: close the session if there is one, clear the frame interval.
CleanedUp(a) ==
    [a EXCEPT !.closing = IF a.session = "open" THEN @ + 1 ELSE @,
              !.session = "null",
              !.frame.on = FALSE]

\* START COMPETITION: startGame() up to its first await.  The callbacks it
\* will hand to the session close over this render's timeLeft and commentCount.
StartGame ==
    /\ app.gameState = "LOBBY"
    /\ ~app.isConnecting
    /\ app' = [CleanedUp(app) EXCEPT
                  !.isConnecting = TRUE,
                  !.commentCount = 0,
                  !.lastCommentTime = 0,
                  !.closure = [timeLeft |-> app.timeLeft,
                               commentCount |-> app.commentCount],
                  !.games = @ + 1]
    /\ ev' = Event("startGame", TRUE)
    /\ UNCHANGED <<canvasVars, now, mark>>

\* getUserMedia or connect rejects: catch (err) { setIsConnecting(false) }.
ConnectFails ==
    /\ app.isConnecting
    /\ app' = [app EXCEPT !.isConnecting = FALSE]
    /\ ev' = Event("connectFails", TRUE)
    /\ UNCHANGED <<canvasVars, now, mark>>

\* The session's onopen: the frame interval is set, gameState becomes PLAYING
\* and timeLeft 60; App renders a new DrawingCanvas and the countdown effect
\* sets its interval.  The effect's endGame closes over the timeLeft of the
\* render that first saw PLAYING: 60 when React batches the three updates,
\* the earlier timeLeft when it renders after each.
SessionOpen ==
    /\ app.isConnecting
    /\ \E batched \in BOOLEAN :
          app' = [app EXCEPT
                    !.session = "open",
                    !.owner = app.games,
                    !.frame = [on |-> TRUE, start |-> now, last |-> now],
                    !.gameState = "PLAYING",
                    !.isConnecting = FALSE,
                    !.timeLeft = 60,
                    !.countdown = [on |-> TRUE, start |-> now, last |-> now],
                    !.endClosure = [timeLeft |-> IF batched THEN 60 ELSE app.timeLeft,
                                    commentCount |-> app.commentCount]]
    /\ canvas' = TRUE
    /\ isActive' = TRUE
    /\ surface' = Blank
    /\ loading' = EmptyBag
    /\ undoStack' = <<>>
    /\ redoStack' = <<>>
    /\ isDrawing' = FALSE
    /\ metrics' = [InitMetrics EXCEPT !.lastStrokeTime = now]
    /\ lastPos' = NoPos
    /\ drawStartTime' = 0
    /\ mark' = InitMark
    /\ ev' = Event("onopen", TRUE)
    /\ UNCHANGED now

\* endGame(), called by the countdown: the final payload, RESULTS (App stops
\* rendering the canvas), cleanupSession in 4 seconds.
EndGame(a) ==
    [a EXCEPT !.finalMetrics =
                  IF canvas
                  THEN MetricsPayload(MetricsRead, "end", a.endClosure.timeLeft,
                                      a.endClosure.commentCount, a.lastCommentTime)
                  ELSE NoPayload,
              !.gameState = "RESULTS",
              !.countdown.on = FALSE,
              !.cleanups = @ \cup {[at |-> now + 4000, game |-> a.owner]}]

CountdownTickLate ==
    /\ app.countdown.on
    /\ app.countdown.last < now
    /\ IF app.timeLeft < 1
       THEN /\ app' = [EndGame(app) EXCEPT !.timeLeft = 0, !.countdown.last = now]
            /\ metrics' = IF canvas THEN MetricsRead ELSE metrics
            /\ canvas' = FALSE
            /\ ev' = Event("endGame", TRUE)
       ELSE /\ app' = [app EXCEPT !.timeLeft = @ - 1, !.countdown.last = now]
            /\ ev' = Event("countdown", TRUE)
            /\ UNCHANGED <<canvas, metrics>>
    /\ UNCHANGED <<isActive, surface, loading, undoStack, redoStack, isDrawing,
                   lastPos, drawStartTime, now, mark>>

\* The countdown interval's callback:
\* setTimeLeft(prev => { if (prev <= 1) { endGame(); return 0; } return prev - 1; })
CountdownTick ==
    /\ app.countdown.on
    /\ app.countdown.last < now
    /\ IF app.timeLeft <= 1
       THEN /\ app' = [EndGame(app) EXCEPT !.timeLeft = 0, !.countdown.last = now]
            /\ metrics' = IF canvas THEN MetricsRead ELSE metrics
            /\ canvas' = FALSE
            /\ ev' = Event("endGame", TRUE)
       ELSE /\ app' = [app EXCEPT !.timeLeft = @ - 1, !.countdown.last = now]
            /\ ev' = Event("countdown", TRUE)
            /\ UNCHANGED <<canvas, metrics>>
    /\ UNCHANGED <<isActive, surface, loading, undoStack, redoStack, isDrawing,
                   lastPos, drawStartTime, now, mark>>

\* The frame interval is at a multiple of its 3000 ms and has not fired for it.
FrameDue ==
    /\ app.frame.on
    /\ now > app.frame.start
    /\ (now - app.frame.start) % 3000 = 0
    /\ app.frame.last < now

\* setTimeout(cleanupSession, 4000), set by endGame at c.at - 4000.
Cleanup(c) ==
    /\ c \in app.cleanups
    /\ c.at <= now
    /\ app' = [CleanedUp(app) EXCEPT !.cleanups = @ \ {c}]
    /\ ev' = Event("cleanupSession", TRUE)
    /\ UNCHANGED <<canvasVars, now, mark>>

\* onclose of a closed session: setGameState(LOBBY).
SessionClosed ==
    /\ app.closing > 0
    /\ app' = [app EXCEPT !.closing = @ - 1,
                          !.gameState = "LOBBY",
                          !.countdown.on = FALSE]
    /\ canvas' = FALSE
    /\ ev' = Event("onclose", TRUE)
    /\ UNCHANGED <<isActive, surface, loading, undoStack, redoStack, isDrawing,
                   metrics, lastPos, drawStartTime, now, mark>>

\* The LOBBY / NEW ROUND button of the results screen.
ToLobby ==
    /\ app.gameState = "RESULTS"
    /\ app' = [app EXCEPT !.gameState = "LOBBY"]
    /\ ev' = Event("lobby", TRUE)
    /\ UNCHANGED <<canvasVars, now, mark>>

\* A mode button of the header: setGameMode(mode); setGameState(LOBBY).
ModeButton ==
    /\ app.gameState # "LOBBY"
    /\ app' = [app EXCEPT !.gameState = "LOBBY", !.countdown.on = FALSE]
    /\ canvas' = FALSE
    /\ ev' = Event("mode", TRUE)
    /\ UNCHANGED <<isActive, surface, loading, undoStack, redoStack, isDrawing,
                   metrics, lastPos, drawStartTime, now, mark>>

\* ------------------------------------------------------------ online room

\* channel.postMessage(msg) by client c: BroadcastChannel hands msg to every
\* other open channel of the same name.
Posted(cl, c, msg) ==
    [d \in Clients |->
        IF d # c /\ cl[c].channel # NoChannel /\ cl[d].channel = cl[c].channel
        THEN [cl[d] EXCEPT !.inbox = Append(@, msg)]
        ELSE cl[d]]

\* A prompt button of the lobby: setCurrentPrompt(p).
SelectPrompt(c, p) ==
    /\ app.clients[c].gameState = "LOBBY"
    /\ app.clients[c].currentPrompt # p
    /\ app' = [app EXCEPT !.clients[c].currentPrompt = p]
    /\ ev' = Event("prompt", TRUE)
    /\ UNCHANGED <<canvasVars, now, mark>>

\* CREATE ROOM / JOIN ROOM: connectToRoom(code, asHost).  The new channel's
\* onmessage calls the handleMessage of the render the click happened in.
ConnectToRoom(c, code, asHost) ==
    /\ app.clients[c].gameState = "LOBBY"
    /\ LET me == app.clients[c]
           connected == [me EXCEPT !.channel = code,
                                   !.inbox = <<>>,
                                   !.handler = [isHost |-> me.isHost,
                                                opponent |-> me.opponent,
                                                currentPrompt |-> me.currentPrompt],
                                   !.roomCode = code,
                                   !.isHost = asHost,
                                   !.gameState = "WAITING",
                                   !.connects = @ + 1]
       IN  app' = [app EXCEPT !.clients =
                      Posted([app.clients EXCEPT ![c] = connected], c,
                             [type |-> "PLAYER_JOINED", senderId |-> c,
                              isHost |-> FALSE, prompt |-> 0])]
    /\ ev' = Event("connectToRoom", TRUE)
    /\ UNCHANGED <<canvasVars, now, mark>>

\* channel.onmessage: handleMessage(e.data), case 'PLAYER_JOINED', with the
\* isHost, opponent and currentPrompt of the handler's render.
HandleMessage(c) ==
    /\ app.clients[c].inbox # <<>>
    /\ LET me == app.clients[c]
           h == me.handler
           msg == Head(me.inbox)
           rest == [app.clients EXCEPT ![c].inbox = Tail(@)]
       IN  app' = [app EXCEPT !.clients =
                      IF h.isHost /\ h.opponent = NoOpponent
                      THEN Posted([rest EXCEPT ![c].opponent = msg.senderId], c,
                                  [type |-> "PLAYER_JOINED", senderId |-> c,
                                   isHost |-> TRUE, prompt |-> h.currentPrompt])
                      ELSE IF ~h.isHost /\ msg.isHost
                      THEN [rest EXCEPT ![c].opponent = msg.senderId,
                                        ![c].currentPrompt = msg.prompt]
                      ELSE rest]
    /\ ev' = Event("message", TRUE)
    /\ UNCHANGED <<canvasVars, now, mark>>

\* A mode button of the header, clicked in the waiting room: back to the lobby;
\* the channel stays open.
LeaveWaiting(c) ==
    /\ app.clients[c].gameState = "WAITING"
    /\ app' = [app EXCEPT !.clients[c].gameState = "LOBBY"]
    /\ ev' = Event("mode", TRUE)
    /\ UNCHANGED <<canvasVars, now, mark>>

\* A second passes, every timer callback due before it having run and every
\* closed session having reported its close.
SecondPasses ==
    /\ app.countdown.on \/ app.frame.on \/ app.cleanups # {}
    /\ app.closing = 0
    /\ app.countdown.on => app.countdown.last = now
    /\ ~FrameDue
    /\ \A c \in app.cleanups : c.at > now
    /\ Tick(1000)

\* ------------------------------------------------------------ specifications

\* Operations counted against a run's budget.
Spent ==
    metrics.strokeCount + metrics.clearCount + metrics.undoCount + Len(mark.dists)

\* The drawing surface and its history, from the mounted component, MaxOps
\* operations deep; the clock does not advance.
Next ==
    \/ /\ Spent < MaxOps
       /\ \E p \in OnePoint, c \in Contents : StartDrawing(p, c)
    \/ /\ Spent < MaxOps
       /\ \E p \in OnePoint, c \in Contents : Draw(p, c)
    \/ StopDrawing
    \/ /\ Spent < MaxOps
       /\ Clear
    \/ /\ Spent < MaxOps
       /\ Undo
    \/ Redo
    \/ \E img \in BagToSet(loading) : RestoreLoad(img)

Spec == Init /\ [][Next]_vars

\* ---- the history at capacity

\* The picture the k-th warm-up stroke leaves.
NextPic(c) == (c + 1) % (MaxContent + 1)

Warm == Spent < 2 * WarmStrokes
DeepBudget == ~Warm /\ Spent - 2 * WarmStrokes < DeepOps

\* WarmStrokes strokes of one painted line each, every one changing the picture,
\* then DeepOps operations of any kind.
NextDeep ==
    \/ /\ (Warm /\ ~isDrawing) \/ DeepBudget
       /\ \E p \in OnePoint, c \in Contents : StartDrawing(p, c)
    \/ /\ (Warm /\ isDrawing /\ Len(mark.dists) < metrics.strokeCount) \/ DeepBudget
       /\ \E p \in OnePoint, c \in (IF Warm THEN {NextPic(surface)} ELSE Contents) :
             Draw(p, c)
    \/ /\ (Warm /\ isDrawing /\ Len(mark.dists) = metrics.strokeCount) \/ ~Warm
       /\ StopDrawing
    \/ /\ DeepBudget
       /\ Clear
    \/ /\ DeepBudget
       /\ Undo
    \/ /\ ~Warm
       /\ Redo
    \/ \E img \in BagToSet(loading) : RestoreLoad(img)

SpecDeep == Init /\ [][NextDeep]_vars

\* ---- the speed estimate

OnePicture == {1}

\* The history of one picture drawn, cleared, undone and redone, MaxStackOps
\* operations deep; the clock does not advance.
NextStacks ==
    \/ /\ Spent < MaxStackOps
       /\ \E p \in OnePoint, c \in OnePicture : StartDrawing(p, c)
    \/ /\ Spent < MaxStackOps
       /\ \E p \in OnePoint, c \in OnePicture : Draw(p, c)
    \/ StopDrawing
    \/ /\ Spent < MaxStackOps
       /\ Clear
    \/ /\ Spent < MaxStackOps
       /\ Undo
    \/ Redo
    \/ \E img \in BagToSet(loading) : RestoreLoad(img)

SpecStacks == Init /\ [][NextStacks]_vars

NextSpeed ==
    \/ /\ metrics.strokeCount < MaxSpeedStrokes
       /\ \E p \in SpeedPoints, c \in OnePicture : StartDrawing(p, c)
    \/ /\ Len(mark.dists) < MaxUpdates
       /\ \E p \in SpeedPoints, c \in OnePicture : Draw(p, c)
    \/ StopDrawing

SpecSpeed == Init /\ [][NextSpeed]_vars

\* ---- the metrics payload as a function of the metrics

PayloadStrokes == {0, 1, 15, 16, 24, 25, 40, LargeStrokes}
\* The one distance sampled so far (averageSpeed is half of it).
PayloadDists == {0, 120, 122, 240, 241, 242}
PayloadDrawingTimes == {0, 1500, 60000}
\* Milliseconds since the last stroke ended.
PayloadIdle == {0, 500, 3000, 3001, 12000}
PayloadTimeLeft == {0, 8, 9, 10, 59, 60}

\* The surface after k strokes, the first of them undone and redone, the last one
\* drawn over t ms with one sampled distance dist, and h ms idle since; the
\* frame interval's callback created in a render whose timeLeft was tl.
PayloadState(k, dist, t, h, tl) ==
    /\ canvas = TRUE
    /\ isActive = TRUE
    /\ surface = IF k = 0 THEN Blank ELSE 1
    /\ loading = EmptyBag
    /\ undoStack = [i \in 1..(IF k < MAX_HISTORY THEN k ELSE MAX_HISTORY) |->
                      ToDataURL(Blank)]
    /\ redoStack = <<>>
    /\ isDrawing = FALSE
    /\ metrics = [InitMetrics EXCEPT !.strokeCount = k,
                                     !.lastStrokeTime = t,
                                     !.totalDrawingTime = t,
                                     !.undoCount = IF k = 0 THEN 0 ELSE 1,
                                     !.averageSpeed = Q(dist, 2)]
    /\ lastPos = NoPos
    /\ drawStartTime = 0
    /\ now = t + h
    /\ app = [PlayingApp EXCEPT !.closure.timeLeft = tl]
    /\ ev = Event(IF k = 0 THEN "mount" ELSE "stopDrawing", TRUE)
    /\ mark = [InitMark EXCEPT !.saved = IF k = 0 THEN NoContent ELSE Blank,
                               !.clean = (k = 0),
                               !.dists = IF k = 0 THEN <<>> ELSE <<dist>>]

InitPayload ==
    \E k \in PayloadStrokes, dist \in PayloadDists, t \in PayloadDrawingTimes,
       h \in PayloadIdle, tl \in PayloadTimeLeft :
        /\ k = 0 => (dist = 0 /\ t = 0)
        /\ PayloadState(k, dist, t, h, tl)

NextPayload == FramePoll

SpecPayload == InitPayload /\ [][NextPayload]_vars

\* ---- the payload of a surface that is drawn on, cleared, undone and redone

NextRedraw ==
    \/ /\ Spent < MaxRedrawOps
       /\ \E p \in OnePoint, c \in OnePicture : StartDrawing(p, c)
    \/ StopDrawing
    \/ /\ Spent < MaxRedrawOps
       /\ Clear
    \/ /\ Spent < MaxRedrawOps
       /\ Undo
    \/ Redo
    \/ \E img \in BagToSet(loading) : RestoreLoad(img)
    \/ FramePoll

SpecRedraw == Init /\ [][NextRedraw]_vars

\* ---- the surface through its life: active or not, mounted and unmounted

\* Pointer events reach the handlers only while the canvas element is mounted;
\* the methods of the handle can be called by whoever holds the handle.
NextLife ==
    \/ /\ canvas /\ (Spent < MaxLifeOps \/ ~isActive)
       /\ \E p \in OnePoint, c \in OnePicture : StartDrawing(p, c)
    \/ /\ canvas /\ Spent < MaxLifeOps
       /\ \E p \in OnePoint, c \in OnePicture : Draw(p, c)
    \/ /\ canvas
       /\ StopDrawing
    \/ /\ Spent < MaxLifeOps
       /\ Clear
    \/ /\ Spent < MaxLifeOps
       /\ Undo
    \/ Redo
    \/ \E img \in BagToSet(loading) : RestoreLoad(img)
    \/ GetSnapshot
    \/ \E b \in BOOLEAN : SetIsActive(b)
    \/ Unmount

SpecLife == Init /\ [][NextLife]_vars

\* ---- the metrics against the clock

\* Milliseconds between two events.
ClockSteps == {1000, 2500}

NextClock ==
    \/ /\ metrics.strokeCount >= 0 /\ metrics.strokeCount < MaxClockStrokes
       /\ \E p \in OnePoint, c \in OnePicture : StartDrawing(p, c)
    \/ /\ Len(mark.dists) < MaxClockSamples
       /\ \E p \in OnePoint, c \in OnePicture : Draw(p, c)
    \/ StopDrawing
    \/ GetMetrics
    \/ CallerWrites
    \/ \E d \in ClockSteps :
          /\ now + d <= MaxClock * 1000
          /\ Tick(d)

SpecClock == Init /\ [][NextClock]_vars

\* ---- every operation of the surface, against the clock

OneSecond == {1000}

NextAll ==
    \/ /\ Spent < MaxAllOps
       /\ \E p \in OnePoint, c \in OnePicture : StartDrawing(p, c)
    \/ /\ Spent < MaxAllOps
       /\ \E p \in OnePoint, c \in OnePicture : Draw(p, c)
    \/ StopDrawing
    \/ /\ Spent < MaxAllOps
       /\ Clear
    \/ /\ Spent < MaxAllOps
       /\ Undo
    \/ Redo
    \/ \E img \in BagToSet(loading) : RestoreLoad(img)
    \/ GetMetrics
    \/ \E d \in OneSecond :
          /\ now + d <= MaxAllClock * 1000
          /\ Tick(d)

SpecAll == Init /\ [][NextAll]_vars

\* ---- App: games against the countdown and the frame interval

\* App before the first game: LOBBY, no canvas rendered.
InitGame ==
    /\ canvas = FALSE
    /\ isActive = TRUE
    /\ surface = Blank
    /\ loading = EmptyBag
    /\ undoStack = <<>>
    /\ redoStack = <<>>
    /\ isDrawing = FALSE
    /\ metrics = InitMetrics
    /\ lastPos = NoPos
    /\ drawStartTime = 0
    /\ now = 0
    /\ app = InitApp
    /\ ev = Event("mount", TRUE)
    /\ mark = InitMark

NextGame ==
    \/ /\ app.games < MaxGames
       /\ StartGame
    \/ ConnectFails
    \/ SessionOpen
    \/ CountdownTick
    \/ /\ FrameDue
       /\ FramePoll
    \/ \E c \in app.cleanups : Cleanup(c)
    \/ SessionClosed
    \/ ToLobby
    \/ ModeButton
    \/ /\ app.countdown.on \/ app.cleanups # {}
       /\ SecondPasses

SpecGame == InitGame /\ [][NextGame]_vars

\* ---- App: the countdown of a game, every timer and callback running when due

\* Time passes while a countdown or a cleanup timeout is pending.
ClockRuns ==
    /\ app.countdown.on \/ app.cleanups # {}
    /\ SecondPasses

NextCountdown ==
    \/ /\ app.games < MaxCountdownGames
       /\ StartGame
    \/ ConnectFails
    \/ SessionOpen
    \/ CountdownTick
    \/ /\ FrameDue
       /\ FramePoll
    \/ \E c \in app.cleanups : Cleanup(c)
    \/ SessionClosed
    \/ ToLobby
    \/ ModeButton
    \/ ClockRuns

\* The browser runs every interval and timeout callback that is due and
\* delivers every close; the clock does not stop.
SpecCountdown ==
    /\ InitGame
    /\ [][NextCountdown]_vars
    /\ WF_vars(CountdownTick)
    /\ WF_vars(FrameDue /\ FramePoll)
    /\ WF_vars(\E c \in app.cleanups : Cleanup(c))
    /\ WF_vars(SessionClosed)
    /\ WF_vars(ClockRuns)

\* ---- App: two clients and the rooms of ONLINE mode

NextRoom ==
    \/ \E c \in Clients, p \in RoomPrompts : SelectPrompt(c, p)
    \/ \E c \in Clients, code \in RoomCodes, asHost \in BOOLEAN :
          /\ app.clients[c].connects < MaxConnects
          /\ ConnectToRoom(c, code, asHost)
    \/ \E c \in Clients : HandleMessage(c)
    \/ \E c \in Clients : LeaveWaiting(c)

\* The browser delivers every message posted to an open channel.
SpecRoom ==
    /\ InitGame
    /\ [][NextRoom]_vars
    /\ \A c \in Clients : WF_vars(HandleMessage(c))

\* ------------------------------------------------------------ claims

Saves == {"startDrawing", "clear"}

\* C1: in every reachable state undoStack holds at most MAX_HISTORY snapshots,
\* also after a redo, which pushes onto it without a length check.
C1_UndoStackBounded == Len(undoStack) <= MAX_HISTORY

\* A redo has just pushed undoStack back to its full length.
C1_Witness == ev.op = "redo" /\ ev.applied /\ Len(undoStack) = MAX_HISTORY

LastN(seq, k) ==
    IF Len(seq) <= k THEN seq ELSE SubSeq(seq, Len(seq) - k + 1, Len(seq))

\* C2: as long as no undo or redo has been applied, undoStack is the last
\* min(n, MAX_HISTORY) of the n snapshots saveState captured, in their order.
C2_FifoWindow ==
    mark.clean =>
        LET kept == LastN(mark.log, MAX_HISTORY)
        IN  undoStack = [i \in 1..Len(kept) |-> ToDataURL(kept[i])]

\* 51 saves: 50 kept, the first (a different picture from the second) gone.
C2_Witness ==
    /\ mark.clean
    /\ Len(mark.log) = MAX_HISTORY + 1
    /\ Len(undoStack) = MAX_HISTORY
    /\ mark.log[1] # mark.log[2]
    /\ undoStack[1] = ToDataURL(mark.log[2])

\* C3: a stroke start or a clear on a live surface leaves redoStack empty, and
\* a redo invoked directly after one changes nothing.
C3_SaveClearsRedo ==
    [][ /\ (ev'.op \in Saves /\ ev'.applied /\ canvas) => redoStack' = <<>>
        /\ (ev.op \in Saves /\ ev.applied /\ canvas /\ ev'.op = "redo") =>
              /\ ~ev'.applied
              /\ UNCHANGED <<undoStack, redoStack, surface, loading, metrics>> ]_vars

\* A redo directly after a save that discarded redo entries (undos came before).
C3_Witness ==
    /\ ev.op = "redo" /\ ~ev.applied /\ ev.after \in Saves
    /\ canvas /\ mark.cleared > 0 /\ metrics.undoCount > 0

\* C4: when saveState captured picture S and the next undo or redo applied is
\* an undo, the surface shows exactly S once that undo's restore has rendered.
C4_UndoRestoresSaved ==
    (ev.op = "onload" /\ ev.img.by = "undo" /\ ev.img.expect # NoContent) =>
        surface = ev.img.expect

\* Such a restore has rendered over a surface that showed another picture.
C4_Witness ==
    /\ ev.op = "onload" /\ ev.img.by = "undo" /\ ev.img.expect # NoContent
    /\ ev.was # ev.img.expect
    /\ surface = ev.img.expect

\* C5: when the surface showed picture C as an undo was applied and redo is the
\* next handler invoked, the surface shows exactly C once that redo's restore
\* has rendered.
C5_RedoRestoresUndone ==
    (ev.op = "onload" /\ ev.img.by = "redo" /\ ev.img.expect # NoContent) =>
        surface = ev.img.expect

\* Such a restore has rendered, bringing back C over the picture undo restored.
C5_Witness ==
    /\ ev.op = "onload" /\ ev.img.by = "redo" /\ ev.img.expect # NoContent
    /\ ev.was # ev.img.expect
    /\ surface = ev.img.expect

\* C6: undo on an empty undoStack and redo on an empty redoStack change neither
\* stack, nor the surface (now or by a pending restore), nor any metric.
C6_EmptyStackNoOp ==
    [][ ((ev'.op = "undo" /\ undoStack = <<>>) \/ (ev'.op = "redo" /\ redoStack = <<>>)) =>
            /\ ~ev'.applied
            /\ UNCHANGED <<undoStack, redoStack, surface, loading, metrics>> ]_vars

\* An undo and then a redo, both on empty stacks of a live surface.
C6_Witness ==
    /\ ev.op = "redo" /\ ~ev.applied /\ ev.after = "undo"
    /\ canvas /\ undoStack = <<>> /\ redoStack = <<>>
    /\ metrics.undoCount = 0

\* C7: an applied undo directly followed by redo leaves undoStack and redoStack
\* with exactly the contents they had before the undo.
C7_UndoRedoKeepsStacks ==
    (ev.op = "redo" /\ ev.applied /\ ev.rt.valid) =>
        (undoStack = ev.rt.undo /\ redoStack = ev.rt.redo)

RECURSIVE Recurrence(_)
\* a0 = 0, a_n = (a_(n-1) + d_n) / 2
Recurrence(ds) ==
    IF ds = <<>>
    THEN RInt(0)
    ELSE LET a == Recurrence(SubSeq(ds, 1, Len(ds) - 1))
         IN  Q(a.n + ds[Len(ds)] * a.d, 2 * a.d)

Payload == app.currentMetricsPayload

InUnit(r) == RLeq(RInt(0), r) /\ RLeq(r, RInt(1))

\* C9: the confidence, efficiency and clarity scores of a payload lie in [0, 1].
C9_ScoresInUnit ==
    Payload.phase # "null" =>
        /\ InUnit(Payload.confidence.score)
        /\ InUnit(Payload.efficiency.score)
        /\ InUnit(Payload.clarity.score)

\* A very large stroke count, every score held at 1.
C9_Witness ==
    /\ ev.op = "framePoll"
    /\ metrics.strokeCount = LargeStrokes
    /\ Payload.confidence.score = RInt(1)
    /\ Payload.efficiency.score = RInt(1)
    /\ Payload.clarity.score = RInt(1)

\* C10: panic_detected of a payload is true exactly when the timeLeft the
\* payload was built from is at most 8 (time_remaining_pct below 0.15) and
\* averageSpeed > 120.
C10_PanicExact ==
    (ev.op = "framePoll" /\ Payload.phase # "null") =>
        /\ Payload.time.remaining_pct = Q(app.closure.timeLeft, 60)
        /\ Payload.efficiency.panic_detected <=>
              (app.closure.timeLeft <= 8 /\ RLt(RInt(120), metrics.averageSpeed))

\* Panic detected at timeLeft = 8 with averageSpeed 120.5.
C10_Witness ==
    /\ ev.op = "framePoll"
    /\ app.closure.timeLeft = 8
    /\ metrics.averageSpeed = Q(241, 2)
    /\ Payload.efficiency.panic_detected

\* C11: getMetrics recomputes hesitationSeconds as (now - lastStrokeTime) / 1000
\* only when no stroke is in progress; called during a stroke it leaves and
\* returns the value the last getMetrics before the stroke computed, and no
\* other operation writes hesitationSeconds.
C11_HesitationFrozen ==
    [][ /\ (ev'.op = "getMetrics" /\ isDrawing) =>
              /\ metrics'.hesitationSeconds = metrics.hesitationSeconds
              /\ app'.canvasMetrics.val.hesitationSeconds = metrics.hesitationSeconds
        /\ (ev'.op = "getMetrics" /\ ~isDrawing) =>
              /\ metrics'.hesitationSeconds = Q(now - metrics.lastStrokeTime, 1000)
              /\ app'.canvasMetrics.val.hesitationSeconds =
                     Q(now - metrics.lastStrokeTime, 1000)
        /\ ev'.op # "getMetrics" =>
              metrics'.hesitationSeconds = metrics.hesitationSeconds ]_vars

\* getMetrics during a stroke, time having passed since the value was computed.
C11_Witness ==
    /\ ev.op = "getMetrics" /\ isDrawing
    /\ RLt(RInt(0), metrics.hesitationSeconds)
    /\ RLt(metrics.hesitationSeconds, Q(now - metrics.lastStrokeTime, 1000))
    /\ app.canvasMetrics.val.hesitationSeconds = metrics.hesitationSeconds

\* C12: no operation lowers strokeCount or totalDrawingTime, and strokeCount
\* grows by exactly one in an accepted stroke start and by nothing in any
\* other operation.
C12_CountersMonotone ==
    [][ /\ metrics'.totalDrawingTime >= metrics.totalDrawingTime
        /\ metrics'.strokeCount =
              metrics.strokeCount +
                (IF ev'.op = "startDrawing" /\ ev'.applied THEN 1 ELSE 0) ]_vars

\* Strokes that took time, then a clear and an applied undo, the counters kept.
C12_Witness ==
    /\ ev.op = "undo" /\ ev.applied
    /\ metrics.clearCount = 1
    /\ metrics.strokeCount = 1
    /\ metrics.totalDrawingTime > 0

\* C13: getMetrics changes nothing but hesitationSeconds (no counter, neither
\* stack, not the surface), a second call at the same instant changes nothing
\* at all and returns the same values, and a write to the returned object does
\* not reach the tracker.
C13_GetMetricsPure ==
    [][ /\ ev'.op = "getMetrics" =>
              /\ metrics' = [metrics EXCEPT
                                !.hesitationSeconds = metrics'.hesitationSeconds]
              /\ UNCHANGED <<surface, loading, undoStack, redoStack, isDrawing,
                             lastPos, drawStartTime>>
              /\ app'.canvasMetrics.val = metrics'
              /\ ev.op = "getMetrics" =>
                    /\ metrics' = metrics
                    /\ app'.canvasMetrics.val = app.canvasMetrics.val
        /\ ev'.op = "callerWrites" =>
              /\ app'.canvasMetrics.val # app.canvasMetrics.val
              /\ UNCHANGED <<metrics, surface, loading, undoStack, redoStack>> ]_vars

\* The caller has overwritten a field of the returned object; the tracker
\* still holds its own count.
C13_Witness ==
    /\ ev.op = "callerWrites"
    /\ app.canvasMetrics.val.strokeCount = Scribbled
    /\ metrics.strokeCount > 0
    /\ RLt(RInt(0), metrics.hesitationSeconds)

\* C14: the payload of every frame poll during a game carries
\* time.remaining_pct = timeLeft / 60 for the countdown's timeLeft at that
\* moment, and the payload endGame builds carries the timeLeft the countdown
\* had reached (1, turning 0).
C14_RemainingPctCurrent ==
    /\ (ev.op = "framePoll" /\ Payload.phase # "null") =>
          Payload.time.remaining_pct = Q(app.timeLeft, 60)
    /\ (ev.op = "endGame" /\ app.finalMetrics.phase # "null") =>
          app.finalMetrics.time.remaining_pct \in {Q(0, 60), Q(1, 60)}

\* C15: with the canvas element missing, clear, undo and redo (and the
\* saveState inside clear) leave undoStack, redoStack and every metrics counter
\* unchanged, and getSnapshot returns the empty string.
C15_MissingSurfaceNoOp ==
    [][ /\ (~canvas /\ ev'.op \in {"clear", "undo", "redo"}) =>
              UNCHANGED <<undoStack, redoStack, metrics>>
        /\ (~canvas /\ ev'.op = "getSnapshot") =>
              /\ app'.snap.data = EmptyString
              /\ UNCHANGED <<undoStack, redoStack, metrics>> ]_vars

\* C16: a stroke start on a live, active surface and a clear on a live surface
\* push the picture the surface shows before the handler changes it, as the
\* newest entry of undoStack; a stroke start on an inactive surface saves
\* nothing, counts no stroke and changes nothing.
C16_SaveBeforeMutation ==
    [][ /\ (canvas /\ ((ev'.op = "startDrawing" /\ isActive) \/ ev'.op = "clear")) =>
              /\ ev'.applied
              /\ undoStack' = Evict(Append(undoStack, ToDataURL(surface)))
              /\ undoStack'[Len(undoStack')] = ToDataURL(surface)
        /\ (ev'.op = "startDrawing" /\ ~isActive) =>
              /\ ~ev'.applied
              /\ UNCHANGED <<undoStack, redoStack, surface, metrics, isDrawing>> ]_vars

\* A clear saved the painted picture before blanking it; then a stroke start
\* on the inactive surface was refused.
C16_Witness ==
    /\ ev.op = "startDrawing" /\ ~ev.applied /\ ~isActive /\ canvas
    /\ surface = Blank
    /\ undoStack # <<>>
    /\ undoStack[Len(undoStack)] = ToDataURL(1)
    /\ metrics.clearCount = 1

\* The restore of picture url requested by handler by is the one image the
\* step has added to the pending loads.
RestoreStarted(by, url) ==
    \E img \in BagToSet(loading') :
        /\ img.url = url /\ img.by = by
        /\ loading' = loading (+) SetToBag({img})

\* C17: an applied undo pushes the picture the surface shows at the call onto
\* redoStack, removes the newest entry of undoStack and starts the restore of
\* that entry, which paints exactly that entry when it renders; an applied redo
\* does the same with the stacks exchanged; the entries below the top of either
\* stack stay as they were.
C17_UndoRedoMoveTop ==
    [][ /\ (ev'.op = "undo" /\ ev'.applied) =>
              /\ undoStack # <<>>
              /\ redoStack' = Append(redoStack, ToDataURL(surface))
              /\ Len(undoStack') = Len(undoStack) - 1
              /\ \A i \in 1..Len(undoStack') : undoStack'[i] = undoStack[i]
              /\ RestoreStarted("undo", undoStack[Len(undoStack)])
        /\ (ev'.op = "redo" /\ ev'.applied) =>
              /\ redoStack # <<>>
              /\ undoStack' = Append(undoStack, ToDataURL(surface))
              /\ Len(redoStack') = Len(redoStack) - 1
              /\ \A i \in 1..Len(redoStack') : redoStack'[i] = redoStack[i]
              /\ RestoreStarted("redo", redoStack[Len(redoStack)])
        /\ (ev'.op = "onload") =>
              /\ surface' = DecodeImage(ev'.img.url)
              /\ UNCHANGED <<undoStack, redoStack>> ]_vars

\* An applied redo that left an entry on redoStack, with different pictures on
\* top of the two stacks.
C17_Witness ==
    /\ ev.op = "redo" /\ ev.applied /\ ev.after = "undo"
    /\ Len(redoStack) >= 1 /\ Len(undoStack) >= 1
    /\ undoStack[Len(undoStack)] # redoStack[Len(redoStack)]

\* C18: when an applied undo or redo returns, the surface already shows the
\* entry it popped, so every later operation observes the restored surface;
\* and no restore renders after a later operation and replaces what the
\* surface shows then.
C18_RestoreBeforeReturn ==
    [][ /\ (ev'.op = "undo" /\ ev'.applied /\ undoStack # <<>>) =>
              surface' = DecodeImage(undoStack[Len(undoStack)])
        /\ (ev'.op = "redo" /\ ev'.applied /\ redoStack # <<>>) =>
              surface' = DecodeImage(redoStack[Len(redoStack)])
        /\ (ev'.op = "onload" /\ ev.op \notin {"undo", "redo", "onload"}) =>
              surface' = surface ]_vars

\* C19: every step adds to undoCount exactly one when it is an applied undo
\* and nothing otherwise (a refused undo and a redo add nothing), and adds to
\* clearCount exactly one when it is a call of clear and nothing otherwise; so
\* the two counters are the numbers of applied undos and of clear calls.
C19_UndoClearCounts ==
    [][ /\ metrics'.undoCount = metrics.undoCount +
              (IF ev'.op = "undo" /\ ev'.applied THEN 1 ELSE 0)
        /\ metrics'.clearCount = metrics.clearCount +
              (IF ev'.op = "clear" THEN 1 ELSE 0) ]_vars

\* One clear, one applied undo, an applied redo, and then an undo refused
\* because the canvas is gone.
C19_Witness ==
    /\ ev.op = "undo" /\ ~ev.applied /\ ~canvas
    /\ metrics.undoCount = 1 /\ metrics.clearCount = 1 /\ metrics.strokeCount = 0
    /\ undoStack # <<>> /\ redoStack = <<>>

\* C20: a pointer-up that closes a stroke in progress adds now minus the
\* stroke's start time, which is not negative, to totalDrawingTime, sets
\* lastStrokeTime to now, forgets the last point and ends the stroke; no other
\* step, a pointer-up with no stroke in progress included, changes
\* totalDrawingTime or lastStrokeTime.
C20_StrokeEndAccumulates ==
    [][ /\ (ev'.op = "stopDrawing" /\ isDrawing) =>
              /\ now >= drawStartTime
              /\ metrics'.totalDrawingTime =
                     metrics.totalDrawingTime + (now - drawStartTime)
              /\ metrics'.lastStrokeTime = now
              /\ lastPos' = NoPos
              /\ isDrawing' = FALSE
        /\ ~(ev'.op = "stopDrawing" /\ isDrawing) =>
              /\ metrics'.totalDrawingTime = metrics.totalDrawingTime
              /\ metrics'.lastStrokeTime = metrics.lastStrokeTime ]_vars

\* Two strokes of 1000 ms and 2500 ms have ended, the second one just now and
\* with a last point to forget.
C20_Witness ==
    /\ ev.op = "stopDrawing" /\ ~isDrawing /\ lastPos = NoPos
    /\ metrics.strokeCount = 2
    /\ metrics.totalDrawingTime = 3500
    /\ metrics.lastStrokeTime = now /\ now = 3500
    /\ Len(mark.dists) > 0

\* C21: every derived score of a payload lies in [0, 1]: the confidence,
\* efficiency and clarity scores and the redraw_rate, after any sequence of
\* strokes, clears, undos and redos.
C21_AllScoresInUnit ==
    Payload.phase # "null" =>
        /\ InUnit(Payload.confidence.score)
        /\ InUnit(Payload.efficiency.score)
        /\ InUnit(Payload.clarity.score)
        /\ InUnit(Payload.confidence.redraw_rate)

\* C22: the trend of a payload is "rising" whenever averageSpeed > 60, also
\* when hesitationSeconds > 3; "falling" when averageSpeed <= 60 and
\* hesitationSeconds > 3; "stable" otherwise; and it is one of the three.
C22_TrendCases ==
    (ev.op = "framePoll" /\ Payload.phase # "null") =>
        LET fast == RLt(RInt(60), metrics.averageSpeed)
            idle == RLt(RInt(3), metrics.hesitationSeconds)
            trend == Payload.confidence.trend
        IN  /\ trend \in {"rising", "falling", "stable"}
            /\ fast => trend = "rising"
            /\ (~fast /\ idle) => trend = "falling"
            /\ (~fast /\ ~idle) => trend = "stable"
            /\ Payload.confidence.hesitation_seconds = metrics.hesitationSeconds

\* averageSpeed 61 after 12 idle seconds: rising, not falling.
C22_Witness ==
    /\ ev.op = "framePoll"
    /\ metrics.averageSpeed = RInt(61)
    /\ metrics.hesitationSeconds = RInt(12)
    /\ Payload.confidence.trend = "rising"

\* C23: undoStack and redoStack together never hold more than MAX_HISTORY
\* snapshots, so redoStack never holds more than MAX_HISTORY.
C23_HistoryBounded ==
    /\ Len(undoStack) + Len(redoStack) <= MAX_HISTORY
    /\ Len(redoStack) <= MAX_HISTORY

\* A full history, part of it on redoStack after an undo.
C23_Witness ==
    /\ ev.op = "undo" /\ ev.applied
    /\ Len(undoStack) + Len(redoStack) = MAX_HISTORY
    /\ Len(redoStack) >= 1

\* C24: a cleanupSession timeout set by a game's endGame tears down only that
\* game: when it fires it does not close the session, nor clear the frame
\* interval, that a later game's onopen has set.
C24_CleanupOwnGame ==
    [][ \A c \in app.cleanups \ app'.cleanups :
            /\ (app.session = "open" /\ app'.session = "null") => app.owner = c.game
            /\ (app.frame.on /\ ~app'.frame.on) => app.owner = c.game ]_vars

\* C26: once gameState is RESULTS it leaves RESULTS only by the user's LOBBY /
\* NEW ROUND button or a mode button; no timer callback and no session callback
\* changes it.
C26_ResultsUntilUserActs ==
    [][ (app.gameState = "RESULTS" /\ app'.gameState # "RESULTS") =>
            ev'.op \in {"lobby", "mode"} ]_vars

\* C27: while gameState is PLAYING timeLeft is within 0..60; a tick of the
\* countdown takes one from timeLeft, one second after the tick before, and
\* never takes it below 0; timeLeft goes from 1 to 0 exactly in the tick that
\* invokes endGame, which moves gameState to RESULTS and stops the countdown;
\* and every game that enters PLAYING leaves it.
C27_CountdownEnds ==
    /\ [](app.gameState = "PLAYING" => app.timeLeft \in 0..60)
    /\ [][ /\ ((ev'.op \in {"countdown", "endGame"}) =>
                  (/\ app.gameState = "PLAYING"
                   /\ app'.timeLeft = app.timeLeft - 1
                   /\ app'.timeLeft >= 0
                   /\ now - app.countdown.last = 1000))
            /\ ((ev'.op = "endGame") <=>
                  (app.gameState = "PLAYING" /\ app.timeLeft = 1 /\ app'.timeLeft = 0))
            /\ ((ev'.op = "endGame") =>
                  (app'.gameState = "RESULTS" /\ ~app'.countdown.on))
            /\ ((app.gameState = "PLAYING" /\ app'.timeLeft # app.timeLeft) =>
                  (ev'.op \in {"countdown", "endGame"})) ]_vars
    /\ (app.gameState = "PLAYING") ~> (app.gameState # "PLAYING")

\* A game played to its end: sixty ticks after onopen, endGame has run.
C27_Witness ==
    /\ ev.op = "endGame"
    /\ app.gameState = "RESULTS" /\ app.timeLeft = 0
    /\ now = app.countdown.start + 60000
    /\ app.cleanups # {}

\* Client h has created room code as its first room and is waiting in it.
Created(h, code) ==
    LET cl == app.clients[h]
    IN  cl.gameState = "WAITING" /\ cl.isHost /\ cl.channel = code /\ cl.connects = 1

\* Client g has joined room code as its first room and is waiting in it.
Joined(g, code) ==
    LET cl == app.clients[g]
    IN  cl.gameState = "WAITING" /\ ~cl.isHost /\ cl.channel = code /\ cl.connects = 1

\* The host has recorded g, the joiner has recorded h and h's prompt; the host
\* sees START GAME (opponent && isHost in the waiting room).
Paired(h, g) ==
    /\ app.clients[h].opponent = g
    /\ app.clients[g].opponent = h
    /\ app.clients[g].currentPrompt = app.clients[h].currentPrompt
    /\ app.clients[h].gameState = "WAITING" /\ app.clients[h].isHost

\* C25: when client 1 has created a room from the initial state and client 2
\* has then joined it (its PLAYER_JOINED is on the way to the host), then,
\* unless one of them leaves the room, the host eventually records the joiner
\* and the joiner eventually records the host and adopts its prompt, so that
\* the host can start the game.
C25_RoomHandshake ==
    \A code \in RoomCodes :
        (/\ Created(1, code) /\ Joined(2, code)
         /\ \E i \in 1..Len(app.clients[1].inbox) : app.clients[1].inbox[i].senderId = 2)
        ~> (\/ Paired(1, 2)
            \/ ~Created(1, code)
            \/ ~Joined(2, code))

====
